---- MODULE Spec2Model ----
\* A model of the valourise client (src/src/client.js): the session fields of
\* one Client, its login/logout calls as sequences of atomic segments between
\* awaits, the hub connections it builds, and its EventEmitter surface.
EXTENDS Integers, Sequences, FiniteSets, TLC

\* ------------------------------------------------------------------ bounds
MaxInFlight == 2    \* calls of the client that may be in flight together
MaxConns == 2       \* hub connections built over a run (one per connect())
MaxListeners == 2   \* listeners registered on the client

\* ------------------------------------------------------------------ values
Null == "null"
Undefined == "undefined"
NoConn == 0

Tokens == {"t1", "t2"}
Emails == {"", "a@b.c"}
Passwords == {"", "pw"}
Payloads == {"p1", "p2"}
Outcomes == {"ok", "fail"}
Endpoints == {"", "users/count", "users/self"}
\* Method arguments: the five methods in several letter cases, and others.
MethodStrings ==
  { <<"G", "E", "T">>, <<"g", "e", "t">>, <<"G", "e", "t">>, <<"g", "E", "t">>,
    <<"P", "O", "S", "T">>, <<"p", "o", "s", "t">>, <<"P", "o", "s", "t">>,
    <<"P", "U", "T">>, <<"p", "u", "t">>, <<"p", "U", "T">>,
    <<"D", "E", "L", "E", "T", "E">>, <<"d", "e", "l", "e", "t", "e">>,
    <<"D", "e", "l", "e", "t", "e">>,
    <<"P", "A", "T", "C", "H">>, <<"p", "a", "t", "c", "h">>, <<"p", "A", "t", "C", "h">>,
    <<>>, <<"H", "E", "A", "D">>, <<"h", "e", "a", "d">>, <<"g", "e">>,
    <<"g", "e", "t", "s">>, <<"t", "g", "e">>, <<"g", "e", "t", " ">> }

\* Status messages a caller may set.
Statuses == {"afk", "busy"}

\* The user resource the service returns for an Authorization value.
UserOf(auth) == IF auth = "t1" THEN "u1" ELSE "u2"

\* signalEvents, as <<local name, remote name>> in the object's key order.
signalEvents ==
  << <<"messageCreated", "Relay">>,
     <<"messageUpdated", "RelayEdit">>,
     <<"messageDeleted", "RelayDelete">>,
     <<"directMessageCreated", "RelayDirect">>,
     <<"directMessageUpdated", "RelayDirectEdit">>,
     <<"notification", "RelayNotification">>,
     <<"notificationCleared", "RelayNotificationCleared">>,
     <<"friendEvent", "RelayFriendEvent">> >>

NumSignalEvents == Len(signalEvents)

RemoteNames == {signalEvents[i][2] : i \in 1..NumSignalEvents}
LocalNames == {signalEvents[i][1] : i \in 1..NumSignalEvents}

\* Names the hub may push; "Ping" is a name the client never subscribes to.
PushNames == RemoteNames \cup {"Ping"}

\* The listeners user code registers: an event name and what the listener does.
\* (A `ready` listener that returns changes nothing a call does.)
ListenerChoices == {<<"debug", "returns">>, <<"debug", "throws">>, <<"ready", "throws">>}

Slots == 1..MaxInFlight
ConnIds == 1..MaxConns

VARIABLES
  token,       \* this.token
  user,        \* this.user
  email,       \* this.email
  password,    \* this.password
  connection,  \* this.connection: a connection id, or NoConn for null
  conns,       \* the hub connections built so far, by id
  nconns,      \* how many connections have been built
  listeners,   \* listeners registered on the client, in registration order
  calls,       \* the in-flight login/logout calls, by slot
  settled,     \* the call the last step settled, with the session it left
  out,         \* what the last step made observable (emissions, supplied token)
  server       \* the service's resource of the user (users/self)

vars == <<token, user, email, password, connection, conns, nconns, listeners,
          calls, settled, out, server>>

session == <<token, user, email, password, connection>>

\* ------------------------------------------------------- request primitive
\* !x of JavaScript for the values of the model.
Falsy(x) == x \in {"", Null, Undefined}

\* Method strings are sequences of characters, so that toUpperCase is computed.
LowerLetters == <<"a", "c", "d", "e", "g", "h", "l", "o", "p", "s", "t", "u">>
UpperLetters == <<"A", "C", "D", "E", "G", "H", "L", "O", "P", "S", "T", "U">>

\* The method with its letters as they were given.
toUpperCaseSkipped(m) == m

\* String.prototype.toUpperCase, one character and a whole string.
UpperChar(ch) ==
  IF \E i \in 1..Len(LowerLetters) : LowerLetters[i] = ch
  THEN UpperLetters[CHOOSE i \in 1..Len(LowerLetters) : LowerLetters[i] = ch]
  ELSE ch
toUpperCase(m) == [i \in 1..Len(m) |-> UpperChar(m[i])]

GET == <<"G", "E", "T">>
POST == <<"P", "O", "S", "T">>
PUT == <<"P", "U", "T">>
DELETE == <<"D", "E", "L", "E", "T", "E">>
PATCH == <<"P", "A", "T", "C", "H">>
AllowedMethods == {GET, POST, PUT, DELETE, PATCH}

\* The default of request's `method` parameter.
DefaultMethod == POST

\* The method of the HTTP call as a string of the model.
MethodName(m) ==
  CASE m = GET -> "GET" [] m = POST -> "POST" [] m = PUT -> "PUT"
    [] m = DELETE -> "DELETE" [] m = PATCH -> "PATCH" [] OTHER -> "other"

\* The checks request() makes before its call: "ok", or the Error thrown.
requestCheck(endpoint, method) ==
  IF Falsy(endpoint) THEN "No endpoint provided"
  ELSE IF method = <<>> THEN "No method provided"
  ELSE IF toUpperCase(method) \notin AllowedMethods THEN "Invalid method"
  ELSE "ok"

\* The call request() hands to axios: method: method.toUpperCase(), and the url.
HttpCall(endpoint, method) == <<MethodName(toUpperCase(method)), endpoint>>

\* A call on the hub connection, as an entry of a call's log of steps begun.
HubCall(what) == <<"hub", what>>

\* What request() resolves with: the body on success; on a failed call the
\* empty catch block falls through and the promise resolves with undefined.
RequestReturn(outcome, data) == IF outcome = "ok" THEN data ELSE Undefined

\* ------------------------------------------------------------ EventEmitter
RECURSIVE ListenerIdx(_, _)
\* The indices, from i on, of the listeners registered for `name`, in order.
ListenerIdx(name, i) ==
  IF i > Len(listeners) THEN <<>>
  ELSE (IF listeners[i].name = name THEN <<i>> ELSE <<>>) \o ListenerIdx(name, i + 1)

RECURSIVE RunListeners(_)
\* Listeners are called one after the other; a throw ends the emission.
RunListeners(ix) ==
  IF ix = <<>> THEN <<>>
  ELSE IF listeners[Head(ix)].kind = "throws" THEN <<Head(ix)>>
  ELSE <<Head(ix)>> \o RunListeners(Tail(ix))

\* this.emit(name, payload): the listeners it invoked and whether it threw.
emit(name, payload) ==
  LET ix == ListenerIdx(name, 1)
      inv == RunListeners(ix)
  IN [name |-> name, payload |-> payload, registered |-> ix, invoked |-> inv,
      threw |-> inv # <<>> /\ listeners[inv[Len(inv)]].kind = "throws"]

RECURSIVE EmitAll(_)
\* Consecutive emit statements of one segment: the first throw ends the segment.
EmitAll(evs) ==
  IF evs = <<>> THEN <<>>
  ELSE LET e == emit(Head(evs)[1], Head(evs)[2])
       IN IF e.threw THEN <<e>> ELSE <<e>> \o EmitAll(Tail(evs))

Threw(ems) == ems # <<>> /\ ems[Len(ems)].threw

Names(ems) == [i \in 1..Len(ems) |-> ems[i].name]

NoOut == [kind |-> "none"]
EmitOut(ems) == IF ems = <<>> THEN NoOut ELSE [kind |-> "emits", emits |-> ems]

\* ------------------------------------------------------------------- calls
\* The user resource of the service: the status and a field the client's
\* status update leaves alone.
Resource(name, status) == [name |-> name, status |-> status]
NoResource == Resource("none", "none")
InitialResource == Resource("n0", "s0")

IdleCall ==
  [pc |-> "idle", kind |-> "none", alone |-> TRUE, overlapsLogin |-> FALSE,
   preToken |-> Null, reqAuth |-> Null, hubConn |-> NoConn, hooked |-> 0,
   startConn |-> NoConn, startValid |-> FALSE, stopConn |-> NoConn,
   emitted |-> <<>>, net |-> <<>>, issued |-> <<>>, args |-> <<>>, read |-> NoResource]

NoneSettled ==
  [kind |-> "none", result |-> "none", alone |-> TRUE, overlapsLogin |-> FALSE,
   preToken |-> Null, emitted |-> <<>>, net |-> <<>>,
   issued |-> <<>>, args |-> <<>>, read |-> NoResource, overwrote |-> NoResource,
   token |-> Null, user |-> Null, connection |-> NoConn, connState |-> "none"]

InFlight(s) == calls[s].pc # "idle"

\* The continuations of hookEvents' awaits are microtasks: they all run before
\* the event loop delivers the next network completion.
MicrotasksDrained == \A s \in Slots : calls[s].pc # "hook"

\* The other calls, marked as overlapped when call s starts beside them.
Overlapped(s) ==
  [r \in Slots |-> IF r # s /\ InFlight(r) THEN [calls[r] EXCEPT !.alone = FALSE]
                   ELSE calls[r]]

\* Call s goes on to its next await as record c.
Continue(base, s, c) ==
  /\ calls' = [base EXCEPT ![s] = c]
  /\ settled' = NoneSettled

\* Call s settles (resolves with "ok" or rejects with the error `result`).
Settle(base, s, c, result) ==
  /\ calls' = [base EXCEPT ![s] = IdleCall]
  /\ settled' = [kind |-> c.kind, result |-> result, alone |-> c.alone,
                 overlapsLogin |-> c.overlapsLogin, preToken |-> c.preToken,
                 emitted |-> c.emitted, net |-> c.net,
                 issued |-> c.issued, args |-> c.args, read |-> c.read,
                 overwrote |-> IF server' = server THEN NoResource ELSE server,
                 token |-> token', user |-> user', connection |-> connection',
                 connState |-> IF connection' = NoConn THEN "none"
                               ELSE conns'[connection'].state]

\* client.on(name, listener)
Subscribe(name, kind) ==
  /\ Len(listeners) < MaxListeners
  /\ listeners' = Append(listeners, [name |-> name, kind |-> kind])
  /\ out' = NoOut
  /\ UNCHANGED <<token, user, email, password, connection, conns, nconns, server, calls>>
  /\ settled' = NoneSettled

\* --------------------------------------------------------- hub connections
Unbuilt == [state |-> "Unbuilt", handlers |-> <<>>, tokenAtBuild |-> Null, authed |-> FALSE]

\* new HubConnectionBuilder().withUrl(...).withAutomaticReconnect().build()
Built == [state |-> "Disconnected", handlers |-> <<>>, tokenAtBuild |-> token, authed |-> FALSE]

\* A handler closing over one `event` shared by all iterations (var).
HandlerEventShared(i) == signalEvents[NumSignalEvents][1]

\* The local name the handler of the i-th entry emits: `event` is bound afresh
\* by each iteration of the for-in loop (const).
HandlerEvent(i) == signalEvents[i][1]

\* hubConnection.on(signalEvents[event], (data) => this.emit(event, data))
On(conn, i) ==
  [conn EXCEPT !.handlers = Append(@, <<signalEvents[i][2], HandlerEvent(i)>>)]

\* connection.start() on a connection record: only a Disconnected one starts.
CanStart(conn) == conn.state = "Disconnected"

\* A supplier returning the token captured when connect() ran.
accessTokenSnapshot(c) == conns[c].tokenAtBuild

\* accessTokenFactory: () => this.token
accessTokenFactory(c) == token

\* ------------------------------------------------------------------- login
PendingLogins == Cardinality({r \in Slots : calls[r].pc \in {"awaitToken", "awaitSelf"}})

FirstFree(s) == ~InFlight(s) /\ \A r \in Slots : r < s => InFlight(r)

\* A check of the email alone.
InvalidCredentialsEmailOnly(e, p) == Falsy(e)

\* !email || !password
InvalidCredentials(e, p) == Falsy(e) \/ Falsy(p)

\* login(email, password) up to its first await: the check of the arguments,
\* the credentials stored, the first debug emission, the token request sent.
LoginInvoke(s, e, p) ==
  /\ FirstFree(s)
  /\ (InvalidCredentials(e, p) \/ nconns + PendingLogins < MaxConns)
  /\ LET c0 == [IdleCall EXCEPT !.kind = "login",
                                !.alone = \A r \in Slots : ~InFlight(r),
                                !.overlapsLogin = \E r \in Slots : calls[r].kind = "login",
                                !.preToken = token,
                                !.args = <<e, p>>]
         ems == EmitAll(<< <<"debug", "credentials">> >>)
         c1 == [c0 EXCEPT !.emitted = Names(ems)]
     IN IF InvalidCredentials(e, p)
        THEN /\ UNCHANGED <<token, user, email, password, connection, conns, nconns, listeners, server>>
             /\ out' = NoOut
             /\ Settle(Overlapped(s), s, c0, "Invalid email or password")
        ELSE /\ email' = e
             /\ password' = p
             /\ out' = EmitOut(ems)
             /\ UNCHANGED <<token, user, connection, conns, nconns, listeners, server>>
             /\ IF Threw(ems)
                THEN Settle(Overlapped(s), s, c1, "listener threw")
                ELSE Continue(Overlapped(s), s,
                              [c1 EXCEPT !.pc = "awaitToken",
                                         !.issued = <<HttpCall("users/token", DefaultMethod)>>])

\* The token request settles: response.id is read (a TypeError on undefined),
\* the token stored, and getSelf() sends the self request.
LoginToken(s, outcome, id) ==
  /\ calls[s].pc = "awaitToken"
  /\ MicrotasksDrained
  /\ LET response == RequestReturn(outcome, id)
         c0 == [calls[s] EXCEPT !.net = Append(@, <<"token", outcome>>)]
         ems == EmitAll(<< <<"debug", "token">> >>)
         c1 == [c0 EXCEPT !.emitted = @ \o Names(ems)]
     IN /\ UNCHANGED <<user, email, password, connection, conns, nconns, listeners, server>>
        /\ IF response = Undefined
           THEN /\ UNCHANGED token
                /\ out' = NoOut
                /\ Settle(calls, s, c0, "TypeError")
           ELSE /\ out' = EmitOut(ems)
                /\ IF Threw(ems)
                   THEN UNCHANGED token /\ Settle(calls, s, c1, "listener threw")
                   ELSE /\ token' = response
                        /\ IF Falsy(response)
                           THEN Settle(calls, s, c1, "Not logged in")
                           ELSE Continue(calls, s,
                                         [c1 EXCEPT !.pc = "awaitSelf", !.reqAuth = response,
                                                    !.issued = Append(@, HttpCall("users/self", GET))])

\* `ready` emitted before connect() is called.
IdentityEventsReady ==
  << <<"debug", "user">>, <<"debug", "connecting">>, <<"ready", Undefined>> >>

\* The debug emissions between the self request and connect().
IdentityEvents == << <<"debug", "user">>, <<"debug", "connecting">> >>

\* The self request settles: this.user is assigned, its name read (a TypeError
\* on undefined), and connect() builds the connection and hooks the first event.
LoginSelf(s, outcome) ==
  /\ calls[s].pc = "awaitSelf"
  /\ MicrotasksDrained
  /\ LET data == RequestReturn(outcome, UserOf(calls[s].reqAuth))
         c0 == [calls[s] EXCEPT !.net = Append(@, <<"self", outcome>>)]
         ems == EmitAll(IdentityEvents)
         c1 == [c0 EXCEPT !.emitted = @ \o Names(ems)]
         id == nconns + 1
     IN /\ user' = data
        /\ UNCHANGED <<token, email, password, listeners, server>>
        /\ IF data = Undefined
           THEN /\ out' = NoOut
                /\ UNCHANGED <<connection, conns, nconns>>
                /\ Settle(calls, s, c0, "TypeError")
           ELSE /\ out' = EmitOut(ems)
                /\ IF Threw(ems)
                   THEN /\ UNCHANGED <<connection, conns, nconns>>
                        /\ Settle(calls, s, c1, "listener threw")
                   ELSE /\ connection' = id
                        /\ nconns' = id
                        /\ conns' = [conns EXCEPT ![id] = On(Built, 1)]
                        /\ Continue(calls, s, [c1 EXCEPT !.pc = "hook", !.hubConn = id,
                                                         !.hooked = 1])

\* A loop that ends after its first iteration.
MoreToHookNever(n) == FALSE

\* for (const event in signalEvents), after n iterations
MoreToHook(n) == n < NumSignalEvents

\* hookEvents resumes after an await: the next entry is hooked, or, after the
\* last one, connect() calls this.connection.start().
LoginHook(s) ==
  /\ calls[s].pc = "hook"
  /\ out' = NoOut
  /\ UNCHANGED <<token, user, email, password, connection, nconns, listeners, server>>
  /\ LET c == calls[s]
     IN IF MoreToHook(c.hooked)
        THEN /\ conns' = [conns EXCEPT ![c.hubConn] = On(@, c.hooked + 1)]
             /\ Continue(calls, s, [c EXCEPT !.hooked = @ + 1])
        ELSE /\ conns' = IF CanStart(conns[connection])
                         THEN [conns EXCEPT ![connection].state = "Connecting",
                                            ![connection].authed = FALSE]
                         ELSE conns
             /\ Continue(calls, s, [c EXCEPT !.pc = "awaitStart", !.startConn = connection,
                                             !.startValid = CanStart(conns[connection]),
                                             !.issued = Append(@, HubCall("start"))])

\* The hub transport asks the token supplier of a connection that is being
\* (re)established.
SupplyToken(c) ==
  /\ conns[c].state \in {"Connecting", "Reconnecting"}
  /\ MicrotasksDrained
  /\ ~conns[c].authed
  /\ conns' = [conns EXCEPT ![c].authed = TRUE]
  /\ out' = [kind |-> "supply", conn |-> c, supplied |-> accessTokenFactory(c),
             current |-> token, atBuild |-> conns[c].tokenAtBuild]
  /\ UNCHANGED <<token, user, email, password, connection, nconns, listeners, server, calls>>
  /\ settled' = NoneSettled

\* `ready` emitted a second time.
ReadyTwice == << <<"ready", Undefined>>, <<"ready", Undefined>> >>

\* this.emit('ready')
ReadyEvents == << <<"ready", Undefined>> >>

\* connection.start() settles; on success login emits `ready` and resolves.
LoginStart(s, outcome) ==
  /\ calls[s].pc = "awaitStart"
  /\ MicrotasksDrained
  /\ LET c == calls[s]
         k == c.startConn
         c0 == [c EXCEPT !.net = Append(@, <<"start", outcome>>)]
         ems == EmitAll(ReadyEvents)
         c1 == [c0 EXCEPT !.emitted = @ \o Names(ems)]
     IN /\ UNCHANGED <<token, user, email, password, connection, nconns, listeners, server>>
        /\ IF outcome = "ok"
           THEN /\ c.startValid
                /\ conns[k].state = "Connecting"
                /\ conns[k].authed
                /\ conns' = [conns EXCEPT ![k].state = "Connected"]
                /\ out' = EmitOut(ems)
                /\ Settle(calls, s, c1, IF Threw(ems) THEN "listener threw" ELSE "ok")
           ELSE /\ conns' = IF c.startValid /\ conns[k].state = "Connecting"
                            THEN [conns EXCEPT ![k].state = "Disconnected"]
                            ELSE conns
                /\ out' = NoOut
                /\ Settle(calls, s, c0, "start failed")

\* ------------------------------------------------------------------ logout
\* A check that never finds the client logged out.
LoggedOutNever == FALSE

\* !this.token
LoggedOut == Falsy(token)

\* logout() up to its first await: the token check and the logout request.
LogoutInvoke(s) ==
  /\ FirstFree(s)
  /\ LET c0 == [IdleCall EXCEPT !.kind = "logout",
                                !.alone = \A r \in Slots : ~InFlight(r),
                                !.preToken = token]
     IN /\ out' = NoOut
        /\ UNCHANGED <<token, user, email, password, connection, conns, nconns, listeners, server>>
        /\ IF LoggedOut
           THEN Settle(Overlapped(s), s, c0, "Not logged in")
           ELSE Continue(Overlapped(s), s,
                         [c0 EXCEPT !.pc = "awaitLogout", !.reqAuth = token,
                                    !.issued = <<HttpCall("users/logout", POST)>>])

\* connection.stop() on a connection record.
Stopping(conn) ==
  IF conn.state = "Disconnected" THEN conn ELSE [conn EXCEPT !.state = "Disconnecting"]

\* The logout request settles (its result is not looked at): token and user are
\* cleared and this.connection.stop() is called (a TypeError on null).
LogoutRequest(s, outcome) ==
  /\ calls[s].pc = "awaitLogout"
  /\ MicrotasksDrained
  /\ LET c0 == [calls[s] EXCEPT !.net = Append(@, <<"logout", outcome>>)]
     IN /\ token' = Null
        /\ user' = Null
        /\ out' = NoOut
        /\ UNCHANGED <<email, password, connection, nconns, listeners, server>>
        /\ IF connection = NoConn
           THEN /\ UNCHANGED conns
                /\ Settle(calls, s, c0, "TypeError")
           ELSE /\ conns' = [conns EXCEPT ![connection] = Stopping(@)]
                /\ Continue(calls, s, [c0 EXCEPT !.pc = "awaitStop", !.stopConn = connection,
                                                 !.issued = Append(@, HubCall("stop"))])

\* `logout` emitted without the `debug` before it.
LogoutAlone == << <<"logout", Undefined>> >>

\* this.emit('debug', `Logged out`); this.emit('logout')
LogoutEvents == << <<"debug", "logged out">>, <<"logout", Undefined>> >>

\* connection.stop() settles: `debug` and `logout` are emitted.
LogoutStop(s) ==
  /\ calls[s].pc = "awaitStop"
  /\ MicrotasksDrained
  /\ LET c == calls[s]
         k == c.stopConn
         c0 == [c EXCEPT !.net = Append(@, <<"stop", "ok">>)]
         ems == EmitAll(LogoutEvents)
         c1 == [c0 EXCEPT !.emitted = @ \o Names(ems)]
     IN /\ conns' = IF conns[k].state = "Disconnecting"
                    THEN [conns EXCEPT ![k].state = "Disconnected"]
                    ELSE conns
        /\ out' = EmitOut(ems)
        /\ UNCHANGED <<token, user, email, password, connection, nconns, listeners, server>>
        /\ Settle(calls, s, c1, IF Threw(ems) THEN "listener threw" ELSE "ok")

\* ----------------------------------------------------------------- request
\* request(endpoint, data, headers, method) up to its await: the checks of the
\* arguments and the HTTP call. `given` tells whether a method was passed.
RequestInvoke(s, endpoint, given, text) ==
  /\ FirstFree(s)
  /\ LET method == IF given THEN text ELSE DefaultMethod
         check == requestCheck(endpoint, method)
         c0 == [IdleCall EXCEPT !.kind = "request",
                                !.alone = \A r \in Slots : ~InFlight(r),
                                !.preToken = token,
                                !.args = <<endpoint, method>>]
     IN /\ out' = NoOut
        /\ UNCHANGED <<token, user, email, password, connection, conns, nconns, listeners, server>>
        /\ IF check # "ok"
           THEN Settle(Overlapped(s), s, c0, check)
           ELSE Continue(Overlapped(s), s,
                         [c0 EXCEPT !.pc = "awaitRequest",
                                    !.issued = <<HttpCall(endpoint, method)>>])

\* The HTTP call settles: request() resolves, with the body or with undefined.
RequestSettle(s, outcome) ==
  /\ calls[s].pc = "awaitRequest"
  /\ MicrotasksDrained
  /\ out' = [kind |-> "returned", value |-> RequestReturn(outcome, "body")]
  /\ UNCHANGED <<token, user, email, password, connection, conns, nconns, listeners, server>>
  /\ Settle(calls, s, [calls[s] EXCEPT !.net = Append(@, <<"request", outcome>>)], "ok")

\* ----------------------------------------------------- updateStatusMessage
\* updateStatusMessage(status) up to its first await: getSelf()'s token check
\* and its GET of users/self.
UpdateInvoke(s, status) ==
  /\ FirstFree(s)
  /\ LET c0 == [IdleCall EXCEPT !.kind = "update",
                                !.alone = \A r \in Slots : ~InFlight(r),
                                !.preToken = token,
                                !.args = <<status>>]
     IN /\ out' = NoOut
        /\ UNCHANGED <<token, user, email, password, connection, conns, nconns, listeners, server>>
        /\ IF Falsy(token)
           THEN Settle(Overlapped(s), s, c0, "Not logged in")
           ELSE Continue(Overlapped(s), s,
                         [c0 EXCEPT !.pc = "awaitUpdateSelf", !.reqAuth = token,
                                    !.issued = <<HttpCall("users/self", GET)>>])

\* A body with nothing but the status.
PutBodyStatusOnly(read, status) == Resource("none", status)

\* user.status = status: the object that was read, with its status replaced.
PutBody(read, status) == [read EXCEPT !.status = status]

\* The GET settles: the status of the user read is assigned (a TypeError on
\* undefined) and updateUser() sends the PUT of the whole user.
UpdateSelf(s, outcome) ==
  /\ calls[s].pc = "awaitUpdateSelf"
  /\ MicrotasksDrained
  /\ out' = NoOut
  /\ UNCHANGED <<token, user, email, password, connection, conns, nconns, listeners, server>>
  /\ LET c0 == [calls[s] EXCEPT !.net = Append(@, <<"self", outcome>>)]
     IN IF outcome = "ok"
        THEN Continue(calls, s, [c0 EXCEPT !.pc = "awaitUpdatePut", !.read = server,
                                           !.issued = Append(@, HttpCall("users/{id}", PUT))])
        ELSE Settle(calls, s, c0, "TypeError")

\* The PUT settles: on success the service holds the body sent; the call
\* resolves either way.
UpdatePut(s, outcome) ==
  /\ calls[s].pc = "awaitUpdatePut"
  /\ MicrotasksDrained
  /\ out' = NoOut
  /\ UNCHANGED <<token, user, email, password, connection, conns, nconns, listeners>>
  /\ server' = IF outcome = "ok" THEN PutBody(calls[s].read, calls[s].args[1]) ELSE server
  /\ Settle(calls, s, [calls[s] EXCEPT !.net = Append(@, <<"put", outcome>>)], "ok")

\* Someone else changes another field of the user resource on the service.
ServerChange ==
  /\ server.name = InitialResource.name
  /\ server' = [server EXCEPT !.name = "n1"]
  /\ out' = NoOut
  /\ UNCHANGED <<token, user, email, password, connection, conns, nconns, listeners, calls>>
  /\ settled' = NoneSettled

\* ----------------------------------------------------------- hub transport
\* The transport loses an established connection and starts reconnecting
\* (withAutomaticReconnect).
ConnectionLost(c) ==
  /\ conns[c].state = "Connected"
  /\ MicrotasksDrained
  /\ conns' = [conns EXCEPT ![c].state = "Reconnecting", ![c].authed = FALSE]
  /\ out' = NoOut
  /\ UNCHANGED <<token, user, email, password, connection, nconns, listeners, server, calls>>
  /\ settled' = NoneSettled

\* A reconnection attempt, authorized by the supplied token, succeeds.
Reconnected(c) ==
  /\ conns[c].state = "Reconnecting"
  /\ MicrotasksDrained
  /\ conns[c].authed
  /\ conns' = [conns EXCEPT ![c].state = "Connected"]
  /\ out' = NoOut
  /\ UNCHANGED <<token, user, email, password, connection, nconns, listeners, server, calls>>
  /\ settled' = NoneSettled

RECURSIVE Deliver(_, _, _)
\* The emissions of the handlers registered for `remote`, in registration order.
Deliver(hs, remote, data) ==
  IF hs = <<>> THEN <<>>
  ELSE (IF Head(hs)[1] = remote THEN <<emit(Head(hs)[2], data)>> ELSE <<>>)
       \o Deliver(Tail(hs), remote, data)

\* The hub pushes the event `remote` with payload `data` on connection c.
\* A push changes nothing but `out`, so every state a run of pushes reaches is
\* reached by its last push alone: pushes are taken after steps of other kinds.
PushEvent(c, remote, data) ==
  /\ conns[c].state = "Connected"
  /\ MicrotasksDrained
  /\ out.kind # "push"
  /\ out' = [kind |-> "push", conn |-> c, remote |-> remote, payload |-> data,
             emits |-> Deliver(conns[c].handlers, remote, data)]
  /\ UNCHANGED <<token, user, email, password, connection, conns, nconns, listeners, server,
                 calls>>
  /\ settled' = NoneSettled

\* ----------------------------------------------------------- specification
\* The client after its constructor.
Init ==
  /\ token = Null
  /\ user = Null
  /\ email = Null
  /\ password = Null
  /\ connection = NoConn
  /\ conns = [c \in ConnIds |-> Unbuilt]
  /\ nconns = 0
  /\ listeners = <<>>
  /\ calls = [s \in Slots |-> IdleCall]
  /\ settled = NoneSettled
  /\ out = NoOut
  /\ server = InitialResource

Quiet == \A s \in Slots : ~InFlight(s)

\* The steps by which calls in flight and connections being started go on.
Steps ==
  \/ \E s \in Slots, o \in Outcomes, id \in Tokens : LoginToken(s, o, id)
  \/ \E s \in Slots, o \in Outcomes : LoginSelf(s, o)
  \/ \E s \in Slots : LoginHook(s)
  \/ \E s \in Slots, o \in Outcomes : LoginStart(s, o)
  \/ \E s \in Slots, o \in Outcomes : LogoutRequest(s, o)
  \/ \E s \in Slots : LogoutStop(s)
  \/ \E c \in ConnIds : SupplyToken(c)

\* The caller awaits every call before the next one.
Sequential ==
  \/ \E s \in Slots, e \in Emails, p \in Passwords : Quiet /\ LoginInvoke(s, e, p)
  \/ \E s \in Slots : Quiet /\ LogoutInvoke(s)

\* User code registers listeners and makes its calls one after the other.
Next ==
  \/ \E l \in ListenerChoices : Subscribe(l[1], l[2])
  \/ Sequential
  \/ Steps

Spec == Init /\ [][Next]_vars

\* Calls made one after the other, with the hub transport reconnecting and
\* pushing events on the connections.
NextHub ==
  \/ Sequential
  \/ Steps
  \/ \E c \in ConnIds : ConnectionLost(c)
  \/ \E c \in ConnIds : Reconnected(c)
  \/ \E c \in ConnIds, r \in PushNames, d \in Payloads : PushEvent(c, r, d)

SpecHub == Init /\ [][NextHub]_vars

\* Calls made without awaiting the ones in flight.
NextConc ==
  \/ \E s \in Slots, e \in Emails, p \in Passwords : LoginInvoke(s, e, p)
  \/ \E s \in Slots : LogoutInvoke(s)
  \/ Steps

SpecConc == Init /\ [][NextConc]_vars

\* Calls of request() alone, one after the other.
NextRequest ==
  \/ \E s \in Slots, e \in Endpoints, m \in MethodStrings : Quiet /\ RequestInvoke(s, e, TRUE, m)
  \/ \E s \in Slots, e \in Endpoints : Quiet /\ RequestInvoke(s, e, FALSE, <<>>)
  \/ \E s \in Slots, o \in Outcomes : RequestSettle(s, o)

SpecRequest == Init /\ [][NextRequest]_vars

\* One login of a logged-out client, then status updates made without awaiting
\* the ones in flight.
NextUpdate ==
  \/ \E s \in Slots, e \in Emails, p \in Passwords : Quiet /\ LoggedOut /\ LoginInvoke(s, e, p)
  \/ \E s \in Slots, o \in Outcomes, id \in Tokens : LoginToken(s, o, id)
  \/ \E s \in Slots, o \in Outcomes : LoginSelf(s, o)
  \/ \E s \in Slots : LoginHook(s)
  \/ \E s \in Slots, o \in Outcomes : LoginStart(s, o)
  \/ \E c \in ConnIds : SupplyToken(c)
  \/ \E s \in Slots, st \in Statuses :
        (\A r \in Slots : calls[r].kind # "login") /\ UpdateInvoke(s, st)
  \/ \E s \in Slots, o \in Outcomes : UpdateSelf(s, o)
  \/ \E s \in Slots, o \in Outcomes : UpdatePut(s, o)
  \/ ServerChange

SpecUpdate == Init /\ [][NextUpdate]_vars

\* ------------------------------------------------------------------ claims
RECURSIVE Count(_, _)
Count(seq, x) ==
  IF seq = <<>> THEN 0 ELSE (IF Head(seq) = x THEN 1 ELSE 0) + Count(Tail(seq), x)

LoginNetOk == << <<"token", "ok">>, <<"self", "ok">>, <<"start", "ok">> >>
TokenOkSelfFailed == << <<"token", "ok">>, <<"self", "fail">> >>
TokenFailed == << <<"token", "fail">> >>

\* C1: a login whose token request succeeded and whose self request failed
\* rejects and leaves token = null and user = null, with no hub connection
\* started and no `ready` emitted.
C1_SelfFailureRollsBack ==
  (settled.kind = "login" /\ settled.net = TokenOkSelfFailed)
    => /\ settled.result # "ok"
       /\ settled.token = Null
       /\ settled.user = Null
       /\ Count(settled.emitted, "ready") = 0

\* C2: whenever no call is in flight, connectionHandle != null implies
\* token != null.
C2_HandleImpliesToken == Quiet => (connection # NoConn => token # Null)

\* C3: after a logout that resolved, token, user and connectionHandle are null.
C3_LogoutClearsSession ==
  (settled.kind = "logout" /\ settled.result = "ok")
    => /\ settled.token = Null
       /\ settled.user = Null
       /\ settled.connection = NoConn

\* C4: a login invoked while another login is in flight is rejected with
\* ConflictingOperation at once: it is never in flight beside the first one,
\* and it changes no session field.
C4_SecondLoginRejected ==
  /\ \A s \in Slots : (InFlight(s) /\ calls[s].kind = "login") => ~calls[s].overlapsLogin
  /\ (settled.kind = "login" /\ settled.overlapsLogin)
       => settled.result = "ConflictingOperation"

\* C5: a logout called with a token but no connection handle skips the stop,
\* resolves, leaves token = null and user = null and emits `debug`, `logout`.
C5_LogoutWithoutConnection ==
  (settled.kind = "logout" /\ settled.preToken # Null /\ settled.connection = NoConn)
    => /\ settled.result = "ok"
       /\ settled.token = Null
       /\ settled.user = Null
       /\ settled.emitted = <<"debug", "logout">>

\* C6: a login whose token request failed rejects with RequestFailed, leaves the
\* token and user as they were, attempts no further network step and emits no
\* `ready`.
C6_TokenFailureIsRequestFailed ==
  (settled.kind = "login" /\ settled.net # <<>> /\ settled.net[1] = <<"token", "fail">>)
    => /\ settled.result = "RequestFailed"
       /\ settled.net = TokenFailed
       /\ settled.token = settled.preToken
       /\ Count(settled.emitted, "ready") = 0

\* C7: a login on a logged-out client, run on its own, whose three network
\* steps (token request, self request, hub start) all succeeded leaves
\* token != null and user != null and has emitted `ready` exactly once and no
\* `logout`.
C7_SuccessfulLogin ==
  (settled.kind = "login" /\ settled.alone /\ settled.preToken = Null
     /\ settled.net = LoginNetOk)
    => /\ settled.token \in Tokens
       /\ settled.user \notin {Null, Undefined}
       /\ Count(settled.emitted, "ready") = 1
       /\ Count(settled.emitted, "logout") = 0

C7_Witness ==
  /\ settled.kind = "login" /\ settled.alone /\ settled.preToken = Null
  /\ settled.net = LoginNetOk
  /\ settled.result = "ok"
  /\ settled.connState = "Connected"

\* C8: a push event delivered on a connection under the remote name of an entry
\* of signalEvents results in exactly one emission, under that entry's local
\* name and with the payload delivered.
C8_PushRemapped ==
  out.kind = "push" =>
    \A i \in 1..NumSignalEvents :
      out.remote = signalEvents[i][2] =>
        /\ Len(out.emits) = 1
        /\ out.emits[1].name = signalEvents[i][1]
        /\ out.emits[1].payload = out.payload

\* A push of the first entry on the connection of a second login, made after
\* the first connection was stopped by a logout.
C8_Witness ==
  /\ out.kind = "push" /\ out.conn = 2 /\ out.remote = "Relay" /\ out.payload = "p2"
  /\ conns[1].state = "Disconnected"
  /\ Len(out.emits) = 1

\* C9: every invocation of the token supplier of a connection yields the
\* session's token of that moment.
C9_SupplierReadsCurrentToken == out.kind = "supply" => out.supplied = out.current

\* The supplier invoked for a reconnection after the token changed.
C9_Witness ==
  /\ out.kind = "supply" /\ out.current # out.atBuild /\ out.current \in Tokens
  /\ conns[out.conn].state = "Reconnecting"
  /\ out.supplied = out.current

\* C10: an emission invokes every listener registered for the name, in
\* registration order, and no listener's exception ends the emission or reaches
\* the emitting call.
C10_ListenersIsolated ==
  /\ out.kind = "emits" =>
       \A i \in 1..Len(out.emits) :
         out.emits[i].invoked = out.emits[i].registered /\ ~out.emits[i].threw
  /\ settled.result # "listener threw"

\* C11: a logout called while token = null fails with 'Not logged in', has
\* issued no HTTP request and no hub call, has emitted no event, and leaves
\* every session field and every connection as it was.
C11_LogoutNotAuthenticated ==
  [][(settled'.kind = "logout" /\ settled'.preToken = Null)
       => /\ settled'.result = "Not logged in"
          /\ settled'.issued = <<>>
          /\ settled'.net = <<>>
          /\ settled'.emitted = <<>>
          /\ out' = NoOut
          /\ session' = session
          /\ conns' = conns]_vars

\* The logout of a client that was logged in and out before, so that it still
\* holds a connection.
C11_Witness ==
  /\ settled.kind = "logout" /\ settled.preToken = Null
  /\ settled.result = "Not logged in"
  /\ settled.connection # NoConn

\* C12: a login with an empty email or an empty password fails with 'Invalid
\* email or password' at once: no HTTP request, no hub call, no event, and no
\* session field changed.
C12_LoginInvalidArgument ==
  [][(settled'.kind = "login" /\ "" \in {settled'.args[1], settled'.args[2]})
       => /\ settled'.result = "Invalid email or password"
          /\ settled'.issued = <<>>
          /\ settled'.net = <<>>
          /\ settled'.emitted = <<>>
          /\ out' = NoOut
          /\ session' = session
          /\ conns' = conns]_vars

\* Such a login on a logged-in client with listeners registered.
C12_Witness ==
  /\ settled.kind = "login" /\ settled.result = "Invalid email or password"
  /\ settled.args = <<"a@b.c", "">>
  /\ settled.token \in Tokens
  /\ settled.connState = "Connected"
  /\ listeners # <<>>

\* Two characters that are the same letter in either case.
SameLetter(x, y) ==
  \/ x = y
  \/ \E i \in 1..Len(LowerLetters) : {x, y} = {LowerLetters[i], UpperLetters[i]}

MatchesIgnoringCase(m, a) ==
  Len(m) = Len(a) /\ \A i \in 1..Len(m) : SameLetter(m[i], a[i])

\* C13: a request with a non-empty endpoint whose method matches one of GET,
\* POST, PUT, DELETE, PATCH whatever the case of its letters issues exactly one
\* HTTP call, with that method in upper case; with any other method it fails
\* with an error of the argument and issues no HTTP call.
C13_RequestMethod ==
  (settled.kind = "request" /\ settled.args[1] # "")
    => LET endpoint == settled.args[1]
           method == settled.args[2]
       IN IF \E a \in AllowedMethods : MatchesIgnoringCase(method, a)
          THEN LET a == CHOOSE a \in AllowedMethods : MatchesIgnoringCase(method, a)
               IN /\ settled.issued = << <<MethodName(a), endpoint>> >>
                  /\ Len(settled.net) = 1
                  /\ settled.result = "ok"
          ELSE /\ settled.result \in {"No method provided", "Invalid method"}
               /\ settled.issued = <<>>
               /\ settled.net = <<>>

\* A request whose method is given in mixed case.
C13_Witness ==
  /\ settled.kind = "request"
  /\ settled.args = <<"users/count", <<"p", "A", "t", "C", "h">> >>
  /\ settled.issued = << <<"PATCH", "users/count">> >>
  /\ settled.net = << <<"request", "fail">> >>

\* C14: a logout that resolved has emitted exactly one `debug` and then exactly
\* one `logout`, and nothing before its stop of the hub connection settled; at
\* these emissions token and user are null and the connection is stopped.
C14_LogoutEmissions ==
  /\ (settled.kind = "logout" /\ settled.result = "ok")
       => /\ settled.emitted = <<"debug", "logout">>
          /\ settled.issued = <<HttpCall("users/logout", POST), HubCall("stop")>>
          /\ Len(settled.net) = 2 /\ settled.net[2] = <<"stop", "ok">>
          /\ settled.token = Null
          /\ settled.user = Null
          /\ settled.connState = "Disconnected"
  /\ \A s \in Slots : (InFlight(s) /\ calls[s].kind = "logout") => calls[s].emitted = <<>>

\* A resolved logout of a logged-in client, with a listener that was invoked.
C14_Witness ==
  /\ settled.kind = "logout" /\ settled.result = "ok"
  /\ settled.preToken \in Tokens
  /\ settled.emitted = <<"debug", "logout">>
  /\ out.kind = "emits" /\ out.emits[1].invoked # <<>>

Started(c) == conns[c].state \in {"Connecting", "Connected", "Reconnecting"}

\* C15: at most one connection built by the client is started and not yet
\* stopped, and it is the one this.connection refers to.
C15_OneStartedConnection == \A c \in ConnIds : Started(c) => c = connection

HasHandler(c, r) == \E i \in 1..Len(conns[c].handlers) : conns[c].handlers[i][1] = r

\* C16: a connection that connect() has started has a handler registered for
\* every remote name of signalEvents, and the call that starts it has hooked
\* them all on it; so every push of one of these names delivered on a
\* connection finds its handler.
C16_HookedBeforeStart ==
  /\ \A c \in ConnIds :
       conns[c].state \notin {"Unbuilt", "Disconnected"}
         => \A r \in RemoteNames : HasHandler(c, r)
  /\ \A s \in Slots :
       calls[s].pc = "awaitStart"
         => /\ calls[s].startConn = calls[s].hubConn
            /\ \A r \in RemoteNames : HasHandler(calls[s].startConn, r)
  /\ (out.kind = "push" /\ out.remote \in RemoteNames)
       => (HasHandler(out.conn, out.remote) /\ out.emits # <<>>)

\* A push of the last entry of signalEvents on the connection of the first
\* login.
C16_Witness ==
  /\ out.kind = "push" /\ out.remote = signalEvents[NumSignalEvents][2]
  /\ Len(conns[out.conn].handlers) = NumSignalEvents
  /\ out.emits # <<>> /\ out.emits[1].name = "friendEvent"
  /\ nconns = 1

LoginSteps == <<HttpCall("users/token", POST), HttpCall("users/self", GET), HubCall("start")>>
LoginStepNames == <<"token", "self", "start">>
LogoutSteps == <<HttpCall("users/logout", POST), HubCall("stop")>>

\* The steps a call has begun are the first ones of `steps`, in that order; at
\* most the last one begun has not settled.
InOrder(c, steps) ==
  /\ Len(c.issued) <= Len(steps)
  /\ \A i \in 1..Len(c.issued) : c.issued[i] = steps[i]
  /\ Len(c.net) <= Len(c.issued)
  /\ Len(c.issued) <= Len(c.net) + 1

\* What C17 says of one login or logout, in flight or settled.
StepsOrdered(c) ==
  /\ c.kind = "login" =>
       /\ InOrder(c, LoginSteps)
       /\ \A i \in 1..Len(c.net) : c.net[i][1] = LoginStepNames[i]
       /\ \A i \in 1..Len(c.issued) : i > 1 => c.net[i - 1][2] = "ok"
       /\ Count(c.emitted, "ready") > 0 => (Len(c.net) = 3 /\ c.net[3] = <<"start", "ok">>)
  /\ c.kind = "logout" =>
       /\ InOrder(c, LogoutSteps)
       /\ Len(c.issued) = 2 => (Len(c.net) >= 1 /\ c.net[1][1] = "logout")

\* C17: a login begins its token request, its self request and the start of
\* the hub connection in that order, each after the one before it settled
\* successfully, and emits `ready` only after the start settled; a logout
\* begins the stop of the connection only after its logout request settled.
C17_StepsInOrder ==
  /\ \A s \in Slots : InFlight(s) => StepsOrdered(calls[s])
  /\ StepsOrdered(settled)

\* A login on a logged-in client that went through its three steps.
C17_Witness ==
  /\ settled.kind = "login" /\ settled.preToken \in Tokens
  /\ settled.issued = LoginSteps
  /\ settled.net = LoginNetOk
  /\ settled.emitted # <<>> /\ settled.emitted[Len(settled.emitted)] = "ready"

UpdateNetOk == << <<"self", "ok">>, <<"put", "ok">> >>

\* C18: an update that read the user resolves without an error whatever its
\* PUT did, and an update whose GET and PUT both succeeded leaves on the
\* service the user it read with only the status replaced, whatever the
\* service held when the PUT arrived: a change made between its GET and its
\* PUT is overwritten.
C18_ReadModifyWrite ==
  /\ (settled.kind = "update" /\ settled.net # <<>> /\ settled.net[1] = <<"self", "ok">>)
       => /\ settled.result = "ok"
          /\ settled.issued = <<HttpCall("users/self", GET), HttpCall("users/{id}", PUT)>>
  /\ (settled.kind = "update" /\ settled.net = UpdateNetOk)
       => /\ server.name = settled.read.name
          /\ server.status = settled.args[1]

\* The lost update: both calls read the initial status, the other call's PUT
\* set "afk", and this call's PUT replaces it with "busy" and resolves.
C18_Witness ==
  /\ settled.kind = "update" /\ settled.net = UpdateNetOk /\ settled.result = "ok"
  /\ settled.read.status = InitialResource.status
  /\ settled.overwrote.status = "afk"
  /\ settled.args = <<"busy">>
  /\ server.status = "busy"

C20_ReadyMeansReady ==
  (settled.kind = "login" /\ Count(settled.emitted, "ready") > 0)
    => /\ settled.token \in Tokens
       /\ settled.user \notin {Null, Undefined}
       /\ settled.connection # NoConn
       /\ settled.connState = "Connected"

====
